---- MODULE Spec2Model ----
(***************************************************************************)
(* The model cache / lifecycle manager of ComfyUI-HiDream-Sampler          *)
(* (src/hidreamsampler.py): the process-wide _model_cache shared by the    *)
(* three sampler nodes, load_models, cleanup_models, global_cleanup and    *)
(* the wrapper installed around comfy.model_management.unload_all_models.  *)
(*                                                                         *)
(* Python values are modelled as follows.  A pipeline object is a record;  *)
(* None is the record NonePipe.  The sub-components of a pipeline are      *)
(* numbered by the load that created them, 0 standing for None.  The       *)
(* cache is an insertion-ordered sequence of entries, as a Python dict     *)
(* is.  Every operation builds the log of the events of its run, in        *)
(* program order; last keeps the names of these events.                    *)
(*                                                                         *)
(* Spec is the cache and its entry points.  SpecReload adds the module     *)
(* being initialised again, SpecSchedulers ranges over every scheduler     *)
(* option, SpecResolution over every resolution input of the two           *)
(* text-to-image nodes, SpecPresets over HiDreamResolutionSelect, and       *)
(* SpecCleanup over cleanup_models with teardowns that raise.              *)
(***************************************************************************)
EXTENDS Integers, Sequences, FiniteSets, TLC

\* Number of pipelines the third-party loader may build in one behaviour.
MaxLoads == 2

VARIABLES
    hidream_classes_loaded,   \* l.113/126: the hi_diffusers imports succeeded
    bnb_available,            \* l.95/98
    optimum_available,        \* l.82/84
    gptq_support_available,   \* l.65-79
    cuda_available,           \* torch.cuda.is_available()
    host_has_unload,          \* hasattr(comfy.model_management, 'unload_all_models')
    MODEL_CONFIGS,            \* the module global, after the import-time filter
    unload_wrapped,           \* unload_all_models carries _hidream_wrapped
    wrappers,                 \* the wrapped_unload closures around the host's
                              \* handler, outermost first: for each, whether the
                              \* module namespace it closes over is the
                              \* "registered" module or a "replaced" one
    stale_cache,              \* HiDreamSampler._model_cache of the replaced
                              \* module a wrapper closes over
    model_cache,              \* HiDreamSampler._model_cache
    inserted_by,              \* history: the node whose generate inserted the
                              \* entry the cache holds ("" when it holds none)
    loads,                    \* pipelines built so far (numbers the objects)
    res,                      \* the resolution the last completed call worked
                              \* out
    last                      \* the last completed call and its event log

env == <<hidream_classes_loaded, bnb_available, optimum_available,
         gptq_support_available, cuda_available, host_has_unload, MODEL_CONFIGS>>
vars == <<hidream_classes_loaded, bnb_available, optimum_available,
          gptq_support_available, cuda_available, host_has_unload,
          MODEL_CONFIGS, unload_wrapped, wrappers, stale_cache, model_cache,
          inserted_by, loads, res, last>>

\* The state of the hook around comfy.model_management.unload_all_models.
hook == <<unload_wrapped, wrappers, stale_cache>>

----------------------------------------------------------------------------
\* Module constants

ORIGINAL_MODEL_PREFIX == "HiDream-ai"
NF4_MODEL_PREFIX == "azaneko"
ORIGINAL_LLAMA_MODEL_NAME == "nvidia/Llama-3.1-Nemotron-Nano-8B-v1"
NF4_LLAMA_MODEL_NAME == "hugging-quants/Meta-Llama-3.1-8B-Instruct-GPTQ-INT4"
ALTERNATE_LLAMA_MODEL_NAME == "akhbar/Meta-Llama-3.1-8B-Instruct-abliterated-GPTQ"
ALTERNATE_NF4_LLAMA_MODEL_NAME == "akhbar/Meta-Llama-3.1-8B-Instruct-abliterated-GPTQ"

\* MODEL_CONFIGS as written in the source, before filtering.
\* guidance_scale and shift are the source's floats times 10.
ConfigTable ==
    ("full-nf4" :> [path |-> NF4_MODEL_PREFIX \o "/HiDream-I1-Full-nf4",
                    guidance_scale |-> 50, num_inference_steps |-> 50, shift |-> 30,
                    scheduler_class |-> "FlowUniPCMultistepScheduler",
                    is_nf4 |-> TRUE, is_fp8 |-> FALSE,
                    requires_bnb |-> FALSE, requires_gptq_deps |-> TRUE]) @@
    ("dev-nf4" :>  [path |-> NF4_MODEL_PREFIX \o "/HiDream-I1-Dev-nf4",
                    guidance_scale |-> 0, num_inference_steps |-> 28, shift |-> 60,
                    scheduler_class |-> "FlashFlowMatchEulerDiscreteScheduler",
                    is_nf4 |-> TRUE, is_fp8 |-> FALSE,
                    requires_bnb |-> FALSE, requires_gptq_deps |-> TRUE]) @@
    ("fast-nf4" :> [path |-> NF4_MODEL_PREFIX \o "/HiDream-I1-Fast-nf4",
                    guidance_scale |-> 0, num_inference_steps |-> 16, shift |-> 30,
                    scheduler_class |-> "FlashFlowMatchEulerDiscreteScheduler",
                    is_nf4 |-> TRUE, is_fp8 |-> FALSE,
                    requires_bnb |-> FALSE, requires_gptq_deps |-> TRUE]) @@
    ("full" :>     [path |-> ORIGINAL_MODEL_PREFIX \o "/HiDream-I1-Full",
                    guidance_scale |-> 50, num_inference_steps |-> 50, shift |-> 30,
                    scheduler_class |-> "FlowUniPCMultistepScheduler",
                    is_nf4 |-> FALSE, is_fp8 |-> FALSE,
                    requires_bnb |-> TRUE, requires_gptq_deps |-> FALSE]) @@
    ("dev" :>      [path |-> ORIGINAL_MODEL_PREFIX \o "/HiDream-I1-Dev",
                    guidance_scale |-> 0, num_inference_steps |-> 28, shift |-> 60,
                    scheduler_class |-> "FlashFlowMatchEulerDiscreteScheduler",
                    is_nf4 |-> FALSE, is_fp8 |-> FALSE,
                    requires_bnb |-> TRUE, requires_gptq_deps |-> FALSE]) @@
    ("fast" :>     [path |-> ORIGINAL_MODEL_PREFIX \o "/HiDream-I1-Fast",
                    guidance_scale |-> 0, num_inference_steps |-> 16, shift |-> 30,
                    scheduler_class |-> "FlashFlowMatchEulerDiscreteScheduler",
                    is_nf4 |-> FALSE, is_fp8 |-> FALSE,
                    requires_bnb |-> TRUE, requires_gptq_deps |-> FALSE])

\* "Filter models based on available dependencies": what MODEL_CONFIGS
\* holds once the module is imported.
FilterModelConfigs(bnb, optimum, gptq, classes_loaded) ==
    LET d0 == DOMAIN ConfigTable
        d1 == IF ~bnb
                 THEN {k \in d0 : ~ConfigTable[k].requires_bnb} ELSE d0
        d2 == IF ~optimum \/ ~gptq
                 THEN {k \in d1 : ~ConfigTable[k].requires_gptq_deps} ELSE d1
        d3 == IF ~classes_loaded THEN {} ELSE d2
    IN  [k \in d3 |-> ConfigTable[k]]

\* available_schedulers: the scheduler classes, when hi_diffusers imported.
available_schedulers ==
    IF hidream_classes_loaded
       THEN {"FlowUniPCMultistepScheduler", "FlashFlowMatchEulerDiscreteScheduler"}
       ELSE {}

\* scheduler_options offered by the three nodes' INPUT_TYPES.
scheduler_options ==
    {"Default for model", "UniPC", "Euler", "Karras Euler", "Karras Exponential"}

----------------------------------------------------------------------------
\* Python values

NoneSched ==
    [cls |-> "NoneType", shift |-> 0, karras |-> FALSE, exponential |-> FALSE,
     stepped |-> FALSE]

NonePipe == [id |-> 0, cls |-> "NoneType", llm |-> "None", has_transformer |-> FALSE,
             transformer |-> 0, text_encoder_4 |-> 0, tokenizer_4 |-> 0,
             scheduler |-> NoneSched]

NoneConfig == [path |-> "None", guidance_scale |-> 0, num_inference_steps |-> 0,
               shift |-> 0, scheduler_class |-> "None", is_nf4 |-> FALSE,
               is_fp8 |-> FALSE, requires_bnb |-> FALSE, requires_gptq_deps |-> FALSE]

\* Bind(v, F) is F(v) with v evaluated once: "x = v; ...F(x)...".
Bind(v, F(_)) == CHOOSE y \in {F(x) : x \in {v}} : TRUE

\* One event of a call's log.
Ev(e, k, p) == [ev |-> e, key |-> k, pipe |-> p]

\* hasattr(pipe, 'transformer')
HasTransformer(pipe) == pipe.cls # "NoneType" /\ pipe.has_transformer

----------------------------------------------------------------------------
\* The dict HiDreamSampler._model_cache

CacheKeys(cache) == {cache[i].key : i \in DOMAIN cache}

CacheGet(cache, key) ==
    cache[CHOOSE i \in DOMAIN cache : cache[i].key = key]

\* dict.pop(key) / del dict[key]
CachePop(cache, key) == SelectSeq(cache, LAMBDA e : e.key # key)

\* An insertion that stores the pipeline without its config.
CachePut_DropsConfig(cache, key, pipe, config) ==
    IF key \in CacheKeys(cache)
       THEN [i \in DOMAIN cache |->
                IF cache[i].key = key
                   THEN [key |-> key, pipe |-> pipe, config |-> NoneConfig]
                   ELSE cache[i]]
       ELSE Append(cache, [key |-> key, pipe |-> pipe, config |-> NoneConfig])

\* dict[key] = (pipe, config)
CachePut(cache, key, pipe, config) ==
    IF key \in CacheKeys(cache)
       THEN [i \in DOMAIN cache |->
                IF cache[i].key = key
                   THEN [key |-> key, pipe |-> pipe, config |-> config]
                   ELSE cache[i]]
       ELSE Append(cache, [key |-> key, pipe |-> pipe, config |-> config])

----------------------------------------------------------------------------
\* Cache keys and entry validity

AltTag(use_alternate_llm) == IF use_alternate_llm THEN "alternate" ELSE "standard"

\* load_models: cache_key = f"{model_type}_{'alternate' if ... else 'standard'}"
LoadModelsCacheKey(model_type, use_alternate_llm) ==
    model_type \o "_" \o AltTag(use_alternate_llm)

\* HiDreamSampler.generate
\* A sampler key in a namespace of the node's own.
SamplerCacheKey_OwnNamespace(model_type, use_alternate_llm) ==
    model_type \o "_sampler_" \o AltTag(use_alternate_llm)

SamplerCacheKey(model_type, use_alternate_llm) ==
    model_type \o "_" \o AltTag(use_alternate_llm)

\* HiDreamSamplerAdvanced.generate
\* An advanced-node key in a namespace of the node's own.
AdvancedCacheKey_OwnNamespace(model_type, use_alternate_llm) ==
    model_type \o "_advanced_" \o AltTag(use_alternate_llm)

AdvancedCacheKey(model_type, use_alternate_llm) ==
    model_type \o "_" \o AltTag(use_alternate_llm)

\* An image-to-image key without the node's namespace.
Img2ImgCacheKey_NoNamespace(model_type, use_alternate_llm) ==
    model_type \o "_" \o AltTag(use_alternate_llm)

\* HiDreamImg2Img.generate
Img2ImgCacheKey(model_type, use_alternate_llm) ==
    model_type \o "_img2img_" \o AltTag(use_alternate_llm)

\* load_models: pipe is not None and hasattr(pipe, 'transformer')
\*              and pipe.transformer is not None
LoadModelsEntryValid(pipe) ==
    pipe.cls # "NoneType" /\ HasTransformer(pipe) /\ pipe.transformer # 0

\* A validity check that tests the handle and the config only.
GenerateEntryValid_HandleOnly(pipe, config) ==
    ~(pipe.cls = "NoneType" \/ config = NoneConfig)

\* generate: not (pipe is None or config is None or
\*                not hasattr(pipe, 'transformer') or pipe.transformer is None)
GenerateEntryValid(pipe, config) ==
    ~(pipe.cls = "NoneType" \/ config = NoneConfig
      \/ ~HasTransformer(pipe) \/ pipe.transformer = 0)

----------------------------------------------------------------------------
\* Eviction

\* The teardown of one popped pipeline: each of the four attributes the
\* object has is set to None, in the order transformer, text_encoder_4,
\* tokenizer_4, scheduler.  The attribute assignments are the third-party
\* object's: raises_at = 0 when none of them raises, otherwise the number of
\* the assignment that raises, which leaves it and the later ones undone.
\* An assignment that is not executed (None has no attributes, the
\* transformer attribute may be missing) cannot raise.
TeardownUpTo(pipe, raises_at) ==
    IF pipe.cls = "NoneType" THEN [pipe |-> pipe, raised |-> FALSE]
    ELSE LET at == IF raises_at = 1 /\ ~pipe.has_transformer THEN 0 ELSE raises_at
         IN  [pipe |->
                [pipe EXCEPT
                   !.transformer = IF pipe.has_transformer /\ at \in {0, 2, 3, 4}
                                      THEN 0 ELSE @,
                   !.text_encoder_4 = IF at \in {0, 3, 4} THEN 0 ELSE @,
                   !.tokenizer_4 = IF at \in {0, 4} THEN 0 ELSE @,
                   !.scheduler = IF at = 0 THEN NoneSched ELSE @],
              raised |-> at # 0]

\* The teardown when no assignment raises.
Teardown(pipe) == TeardownUpTo(pipe, 0).pipe

\* An eviction loop that visits the keys and removes nothing.
RemoveKeys_PopsNothing(keys_to_del, cache, log) ==
    [cache |-> cache, log |-> log]

\* An eviction loop that clears the pipeline's sub-components while the
\* entry is still in the cache and pops it afterwards, inside the same try.
RECURSIVE RemoveKeysCatching_ClearsBeforePop(_, _, _, _)
RemoveKeysCatching_ClearsBeforePop(keys_to_del, cache, log, raises_at) ==
    IF keys_to_del = <<>> THEN [cache |-> cache, log |-> log]
    ELSE LET key == Head(keys_to_del)
             td == TeardownUpTo(CacheGet(cache, key).pipe,
                                IF raises_at = <<>> THEN 0 ELSE Head(raises_at))
             rest == IF raises_at = <<>> THEN <<>> ELSE Tail(raises_at)
         IN  IF td.raised
                THEN RemoveKeysCatching_ClearsBeforePop(
                         Tail(keys_to_del),
                         [i \in DOMAIN cache |->
                             IF cache[i].key = key
                                THEN [cache[i] EXCEPT !.pipe = td.pipe]
                                ELSE cache[i]],
                         log \o <<Ev("teardown", key, td.pipe),
                                  Ev("teardown_error", key, td.pipe)>>,
                         rest)
                ELSE RemoveKeysCatching_ClearsBeforePop(
                         Tail(keys_to_del), CachePop(cache, key),
                         log \o <<Ev("teardown", key, td.pipe),
                                  Ev("pop", key, NonePipe)>>,
                         rest)

\* for key in keys_to_del: try: pop the entry, tear its pipeline down;
\* except Exception: report it and go on with the next key.
\* raises_at[i] is the assignment that raises in the teardown of the i-th
\* key (0 and beyond the end of raises_at: none).
RECURSIVE RemoveKeysCatching(_, _, _, _)
RemoveKeysCatching(keys_to_del, cache, log, raises_at) ==
    IF keys_to_del = <<>> THEN [cache |-> cache, log |-> log]
    ELSE LET key == Head(keys_to_del)
             td == TeardownUpTo(CacheGet(cache, key).pipe,
                                IF raises_at = <<>> THEN 0 ELSE Head(raises_at))
             log1 == log \o <<Ev("pop", key, NonePipe),
                              Ev("teardown", key, td.pipe)>>
         IN  RemoveKeysCatching(
                 Tail(keys_to_del), CachePop(cache, key),
                 IF td.raised
                    THEN Append(log1, Ev("teardown_error", key, td.pipe))
                    ELSE log1,
                 IF raises_at = <<>> THEN <<>> ELSE Tail(raises_at))

\* The eviction loop when no teardown raises.
RemoveKeys(keys_to_del, cache, log) ==
    RemoveKeysCatching(keys_to_del, cache, log, <<>>)

\* three gc.collect() passes, then torch.cuda.empty_cache() and
\* torch.cuda.synchronize() when CUDA is available.
ReleaseMemory(log) ==
    log \o <<Ev("gc", "", NonePipe), Ev("gc", "", NonePipe), Ev("gc", "", NonePipe)>>
        \o (IF cuda_available
               THEN <<Ev("empty_cache", "", NonePipe), Ev("synchronize", "", NonePipe)>>
               ELSE <<>>)

KeyList(cache) == [i \in DOMAIN cache |-> cache[i].key]

\* A generate that does not clear the cache before loading.
ClearAllCache_KeepsEntries(cache, log) ==
    [cache |-> cache, log |-> log]

\* generate: "if self._model_cache: ... Clearing ALL cache before loading"
ClearAllCache(cache, log) ==
    IF cache # <<>>
       THEN Bind(RemoveKeys(KeyList(cache), cache, log),
                 LAMBDA r : [cache |-> r.cache, log |-> ReleaseMemory(r.log)])
       ELSE [cache |-> cache, log |-> log]

\* A cleanup that tears the pipelines down and leaves their entries in the
\* dict.
cleanup_models_KeepsEntries(cache, log) ==
    [cache |-> [i \in DOMAIN cache |->
                   [cache[i] EXCEPT !.pipe = Teardown(cache[i].pipe)]],
     log |-> ReleaseMemory(log),
     result |-> "True"]

\* HiDreamSampler.cleanup_models
cleanup_models_catching(cache, log, raises_at) ==
    Bind(RemoveKeysCatching(KeyList(cache), cache, log, raises_at),
         LAMBDA r : [cache |-> r.cache, log |-> ReleaseMemory(r.log),
                     result |-> "True"])

\* HiDreamSampler.cleanup_models when no teardown raises.
cleanup_models(cache, log) ==
    Bind(RemoveKeys(KeyList(cache), cache, log),
         LAMBDA r : [cache |-> r.cache, log |-> ReleaseMemory(r.log),
                     result |-> "True"])

----------------------------------------------------------------------------
\* Schedulers

NewScheduler(cls, shift, karras, exponential) ==
    [cls |-> cls, shift |-> shift, karras |-> karras, exponential |-> exponential,
     stepped |-> FALSE]

get_scheduler_instance(scheduler_name, shift_value) ==
    IF available_schedulers = {}
       THEN [raised |-> "RuntimeError", value |-> NoneSched]
    ELSE IF scheduler_name \notin available_schedulers
       THEN [raised |-> "ValueError", value |-> NoneSched]
    ELSE [raised |-> "None",
          value |-> NewScheduler(scheduler_name, shift_value, FALSE, FALSE)]

\* A scheduler update that leaves the pipeline's scheduler in place when
\* the model's default is asked for.
SelectScheduler_KeepsCurrent(pipe, scheduler, original_scheduler_class, original_shift) ==
    IF scheduler = "Default for model" /\ pipe.scheduler.cls # "NoneType"
       THEN [raised |-> "None", value |-> pipe.scheduler]
       ELSE [raised |-> "None",
             value |-> NewScheduler(original_scheduler_class, original_shift,
                                    scheduler = "Karras Euler",
                                    scheduler = "Karras Exponential")]

\* generate, "Update scheduler if requested": the scheduler the call installs
\* on the pipeline ([raised, value]); value = the current one when the option
\* is none of the five.
SelectScheduler(pipe, scheduler, original_scheduler_class, original_shift) ==
    IF scheduler # "Default for model"
       THEN [raised |-> "None",
             value |->
               IF scheduler = "UniPC"
                  THEN NewScheduler("FlowUniPCMultistepScheduler", original_shift, FALSE, FALSE)
               ELSE IF scheduler = "Euler"
                  THEN NewScheduler("FlashFlowMatchEulerDiscreteScheduler", original_shift, FALSE, FALSE)
               ELSE IF scheduler = "Karras Euler"
                  THEN NewScheduler("FlashFlowMatchEulerDiscreteScheduler", original_shift, TRUE, FALSE)
               ELSE IF scheduler = "Karras Exponential"
                  THEN NewScheduler("FlashFlowMatchEulerDiscreteScheduler", original_shift, FALSE, TRUE)
               ELSE pipe.scheduler]
       ELSE get_scheduler_instance(original_scheduler_class, original_shift)

\* An attribute assignment on a pipeline object is seen through every
\* reference to it: the cache entry holding the same object is updated.
StorePipe(cache, pipe) ==
    [i \in DOMAIN cache |->
        IF cache[i].pipe.id = pipe.id /\ cache[i].pipe.cls = pipe.cls
           THEN [cache[i] EXCEPT !.pipe = pipe]
           ELSE cache[i]]

----------------------------------------------------------------------------
\* load_models

LoadResult(raised, pipe, config, cache, n, log) ==
    [raised |-> raised, pipe |-> pipe, config |-> config,
     cache |-> cache, loads |-> n, log |-> log]

\* The LLM the loader picks for the text encoder.
LlamaModelName(is_nf4, use_alternate_llm) ==
    IF is_nf4
       THEN (IF use_alternate_llm THEN ALTERNATE_NF4_LLAMA_MODEL_NAME
                                  ELSE NF4_LLAMA_MODEL_NAME)
       ELSE (IF use_alternate_llm THEN ALTERNATE_LLAMA_MODEL_NAME
                                  ELSE ORIGINAL_LLAMA_MODEL_NAME)

\* load_models from "1. Load LLM" on: the pipeline is built by the
\* third-party libraries.  third_party_ok is the outcome of their
\* from_pretrained calls (downloads, memory); n numbers the new objects.
FreshLoad(cache, n, model_type, use_alternate_llm, third_party_ok, log) ==
    LET config == MODEL_CONFIGS[model_type]
        log1 == Append(log, Ev("from_pretrained", config.path, NonePipe))
        sched == get_scheduler_instance(config.scheduler_class, config.shift)
        pipe == [id |-> n + 1, cls |-> "HiDreamImagePipeline",
                 llm |-> LlamaModelName(config.is_nf4, use_alternate_llm),
                 has_transformer |-> TRUE, transformer |-> n + 1,
                 text_encoder_4 |-> n + 1, tokenizer_4 |-> n + 1,
                 scheduler |-> sched.value]
    IN  IF ~config.is_nf4 /\ ~bnb_available
           THEN LoadResult("ImportError", NonePipe, NoneConfig, cache, n, log)
        ELSE IF ~third_party_ok
           THEN LoadResult("OSError", NonePipe, NoneConfig, cache, n, log1)
        ELSE IF config.is_nf4 /\ ~gptq_support_available
           THEN LoadResult("ImportError", NonePipe, NoneConfig, cache, n, log1)
        ELSE IF ~cuda_available
           THEN LoadResult("RuntimeError", NonePipe, NoneConfig, cache, n, log1)
        ELSE IF sched.raised # "None"
           THEN LoadResult(sched.raised, NonePipe, NoneConfig, cache, n, log1)
        ELSE LoadResult("None", pipe, MODEL_CONFIGS[model_type], cache, n + 1,
                        Append(log1, Ev("loaded", config.path, pipe)))

\* load_models from "config = MODEL_CONFIGS[model_type]" on.
LoadKnownModel(cache, n, model_type, use_alternate_llm, third_party_ok, log0) ==
      LET config == MODEL_CONFIGS[model_type]
          cache_key == LoadModelsCacheKey(model_type, use_alternate_llm)
      IN
      IF config.requires_bnb /\ ~bnb_available
         THEN LoadResult("ImportError", NonePipe, NoneConfig, cache, n, log0)
      ELSE IF config.requires_gptq_deps
              /\ (~optimum_available \/ ~gptq_support_available)
         THEN LoadResult("ImportError", NonePipe, NoneConfig, cache, n, log0)
      ELSE IF cache_key \in CacheKeys(cache)
         THEN LET pipe == CacheGet(cache, cache_key).pipe
              IN  IF LoadModelsEntryValid(pipe)
                     THEN LoadResult("None", pipe, MODEL_CONFIGS[model_type], cache, n,
                                     Append(log0, Ev("cache_hit", cache_key, pipe)))
                     ELSE FreshLoad(CachePop(cache, cache_key), n, model_type,
                                    use_alternate_llm, third_party_ok,
                                    Append(log0, Ev("invalid", cache_key, pipe)))
      ELSE FreshLoad(cache, n, model_type, use_alternate_llm, third_party_ok, log0)

\* A load_models that falls back to the first available model when the model
\* type is unknown.
load_models_DefaultModel(cache, n, model_type, use_alternate_llm, third_party_ok, log) ==
    LET log0 == Append(log, Ev("load_models", model_type, NonePipe))
    IN
    IF ~hidream_classes_loaded
       THEN LoadResult("ImportError", NonePipe, NoneConfig, cache, n, log0)
    ELSE IF model_type \notin DOMAIN MODEL_CONFIGS
       THEN IF DOMAIN MODEL_CONFIGS = {}
               THEN LoadResult("ValueError", NonePipe, NoneConfig, cache, n, log0)
               ELSE LoadKnownModel(cache, n,
                                   CHOOSE m \in DOMAIN MODEL_CONFIGS : TRUE,
                                   use_alternate_llm, third_party_ok, log0)
    ELSE LoadKnownModel(cache, n, model_type, use_alternate_llm,
                        third_party_ok, log0)

load_models(cache, n, model_type, use_alternate_llm, third_party_ok, log) ==
    LET log0 == Append(log, Ev("load_models", model_type, NonePipe))
    IN
    IF ~hidream_classes_loaded
       THEN LoadResult("ImportError", NonePipe, NoneConfig, cache, n, log0)
    ELSE IF model_type \notin DOMAIN MODEL_CONFIGS
       THEN LoadResult("ValueError", NonePipe, NoneConfig, cache, n, log0)
    ELSE LoadKnownModel(cache, n, model_type, use_alternate_llm,
                        third_party_ok, log0)

----------------------------------------------------------------------------
\* generate

IsNone(pipe) == pipe.cls = "NoneType"

GenResult(raised, result, pipe, cache, n, log) ==
    [raised |-> raised, result |-> result, pipe |-> pipe,
     cache |-> cache, loads |-> n, log |-> log]

Loaded(failed, pipe, config, cache, n, log) ==
    [failed |-> failed, pipe |-> pipe, config |-> config,
     cache |-> cache, loads |-> n, log |-> log]

\* A lookup that never finds the key.
CacheCheck_AlwaysMiss(cache, cache_key, log) ==
    [cache |-> cache, pipe |-> NonePipe, config |-> NoneConfig, log |-> log]

\* "if cache_key in self._model_cache": the entry is used when valid and
\* deleted when not.
CacheCheck(cache, cache_key, log) ==
    IF cache_key \in CacheKeys(cache)
       THEN LET e == CacheGet(cache, cache_key)
            IN  IF GenerateEntryValid(e.pipe, e.config)
                   THEN [cache |-> cache, pipe |-> e.pipe, config |-> e.config,
                         log |-> Append(log, Ev("cache_hit", cache_key, e.pipe))]
                   ELSE [cache |-> CachePop(cache, cache_key),
                         pipe |-> NonePipe, config |-> NoneConfig,
                         log |-> Append(log, Ev("invalid", cache_key, e.pipe))]
       ELSE [cache |-> cache, pipe |-> NonePipe, config |-> NoneConfig, log |-> log]

\* A miss path that loads the new model first and evicts the old entries
\* afterwards.
LoadAndCache_LoadsFirst(cache, n, cache_key, model_type, use_alternate_llm, third_party_ok, log) ==
    Bind(load_models(cache, n, model_type, use_alternate_llm,
                     third_party_ok, log), LAMBDA ld :
        IF ld.raised # "None"
           THEN Loaded(TRUE, NonePipe, NoneConfig, ld.cache, ld.loads,
                       Append(ld.log, Ev("load_error", ld.raised, NonePipe)))
           ELSE Bind(ClearAllCache(ld.cache, ld.log), LAMBDA cl :
                    Loaded(FALSE, ld.pipe, ld.config,
                           CachePut(cl.cache, cache_key, ld.pipe, ld.config),
                           ld.loads,
                           Append(cl.log, Ev("insert", cache_key, ld.pipe)))))

\* "if pipe is None": clear the whole cache, load, insert under cache_key
\* (HiDreamSampler and HiDreamSamplerAdvanced).  failed = the load raised,
\* the except block reported it ("load_error") and generate returned the
\* blank 512x512 image.
LoadAndCache(cache, n, cache_key, model_type, use_alternate_llm, third_party_ok, log) ==
    Bind(ClearAllCache(cache, log), LAMBDA cl :
    Bind(load_models(cl.cache, n, model_type, use_alternate_llm,
                     third_party_ok, cl.log), LAMBDA ld :
        IF ld.raised # "None"
           THEN Loaded(TRUE, NonePipe, NoneConfig, ld.cache, ld.loads,
                       Append(ld.log, Ev("load_error", ld.raised, NonePipe)))
           ELSE Loaded(FALSE, ld.pipe, ld.config,
                       CachePut(ld.cache, cache_key, ld.pipe, ld.config),
                       ld.loads, Append(ld.log, Ev("insert", cache_key, ld.pipe)))))

\* An image-to-image miss path that loads without clearing the cache
\* first.
Img2ImgLoadAndCache_NoEviction(cache, n, cache_key, model_type, use_alternate_llm, third_party_ok, log) ==
    Bind(load_models(<<>>, n, model_type, use_alternate_llm,
                     third_party_ok, log), LAMBDA ld :
        IF ld.raised # "None"
           THEN Loaded(TRUE, NonePipe, NoneConfig, cache, ld.loads,
                       Append(ld.log, Ev("load_error", ld.raised, NonePipe)))
           ELSE Bind(ClearAllCache(cache, ld.log), LAMBDA cl :
                    Loaded(FALSE, [ld.pipe EXCEPT !.cls = "HiDreamImageToImagePipeline"],
                           ld.config,
                           CachePut(cl.cache, cache_key,
                                    [ld.pipe EXCEPT !.cls = "HiDreamImageToImagePipeline"],
                                    ld.config),
                           ld.loads,
                           Append(cl.log, Ev("insert", cache_key, ld.pipe)))))

\* The same in HiDreamImg2Img: the loaded text-to-image pipeline is
\* converted to a HiDreamImageToImagePipeline sharing its components.
Img2ImgLoadAndCache(cache, n, cache_key, model_type, use_alternate_llm, third_party_ok, log) ==
    Bind(ClearAllCache(cache, log), LAMBDA cl :
    Bind(load_models(cl.cache, n, model_type, use_alternate_llm,
                     third_party_ok, cl.log), LAMBDA ld :
        LET txt2img_pipe == ld.pipe
            pipe == [id |-> txt2img_pipe.id, cls |-> "HiDreamImageToImagePipeline",
                     llm |-> txt2img_pipe.llm,
                     has_transformer |-> TRUE,
                     transformer |-> txt2img_pipe.transformer,
                     text_encoder_4 |-> txt2img_pipe.text_encoder_4,
                     tokenizer_4 |-> txt2img_pipe.tokenizer_4,
                     scheduler |-> txt2img_pipe.scheduler]
        IN  IF ld.raised # "None"
               THEN Loaded(TRUE, NonePipe, NoneConfig, ld.cache, ld.loads,
                           Append(ld.log, Ev("load_error", ld.raised, NonePipe)))
               ELSE Loaded(FALSE, pipe, ld.config,
                           CachePut(ld.cache, cache_key, pipe, ld.config),
                           ld.loads, Append(ld.log, Ev("insert", cache_key, pipe)))))

\* An inference block that drops the pipeline's cache entry when the
\* pipeline call raises.
RunPipeline_DropsEntryOnError(cache, n, pipe, config, original_scheduler_class, scheduler, inference, log) ==
    LET sel == SelectScheduler(pipe, scheduler, original_scheduler_class, config.shift)
        pipe1 == [pipe EXCEPT !.scheduler = sel.value]
        pipe2 == [pipe1 EXCEPT !.scheduler.stepped = TRUE]
        log1 == log \o <<Ev("set_scheduler", scheduler, pipe1),
                         Ev("inference", inference, pipe1)>>
    IN  IF sel.raised # "None"
           THEN GenResult(sel.raised, "raised", pipe, cache, n, log)
        ELSE IF inference = "ok"
           THEN GenResult("None", "image", pipe2, StorePipe(cache, pipe2), n, log1)
        ELSE GenResult("None", "blank_h_w", pipe2,
                       SelectSeq(cache, LAMBDA e : e.pipe.id # pipe.id), n,
                       Append(log1, Ev("inference_error", inference, pipe2)))

\* From "Update scheduler if requested" to the return: the scheduler is
\* installed on the pipeline object and the pipeline is called, which steps
\* the scheduler.  inference is the outcome of the third-party pipeline call.
RunPipeline(cache, n, pipe, config, original_scheduler_class, scheduler, inference, log) ==
    LET sel == SelectScheduler(pipe, scheduler, original_scheduler_class, config.shift)
        pipe1 == [pipe EXCEPT !.scheduler = sel.value]
        pipe2 == [pipe1 EXCEPT !.scheduler.stepped = TRUE]
        log1 == log \o <<Ev("set_scheduler", scheduler, pipe1),
                         Ev("inference", inference, pipe1)>>
    IN  IF sel.raised # "None"
           THEN GenResult(sel.raised, "raised", pipe, cache, n, log)
        ELSE IF inference = "ok"
           THEN GenResult("None", "image", pipe2, StorePipe(cache, pipe2), n, log1)
        \* except Exception: return (torch.zeros((1, height, width, 3)),)
        ELSE GenResult("None", "blank_h_w", pipe2, StorePipe(cache, pipe2), n,
                       Append(log1, Ev("inference_error", inference, pipe2)))

\* HiDreamSampler.generate
SamplerGenerate(cache, n, model_type, use_alternate_llm, scheduler, third_party_ok, inference) ==
    IF DOMAIN MODEL_CONFIGS = {} \/ model_type = "error"
       THEN GenResult("None", "blank_512", NonePipe, cache, n, <<>>)
    ELSE
      Bind(SamplerCacheKey(model_type, use_alternate_llm), LAMBDA cache_key :
      Bind(CacheCheck(cache, cache_key, <<>>), LAMBDA chk :
      Bind(IF IsNone(chk.pipe)
              THEN LoadAndCache(chk.cache, n, cache_key, model_type,
                                use_alternate_llm, third_party_ok, chk.log)
              ELSE Loaded(FALSE, chk.pipe, chk.config, chk.cache, n, chk.log),
           LAMBDA got :
          IF got.failed \/ IsNone(got.pipe) \/ got.config = NoneConfig
             THEN GenResult("None", "blank_512", NonePipe, got.cache, got.loads, got.log)
          ELSE
            \* txt2img_pipe, model_config = load_models(model_type, use_alternate_llm)
            Bind(load_models(got.cache, got.loads, model_type, use_alternate_llm,
                             third_party_ok, got.log), LAMBDA again :
              IF again.raised # "None"
                 THEN GenResult(again.raised, "raised", got.pipe, again.cache,
                                again.loads, again.log)
                 ELSE RunPipeline(again.cache, again.loads, got.pipe, got.config,
                                  again.config.scheduler_class, scheduler, inference,
                                  again.log)))))

\* HiDreamSamplerAdvanced.generate
AdvancedGenerate(cache, n, model_type, use_alternate_llm, scheduler, third_party_ok, inference) ==
    IF DOMAIN MODEL_CONFIGS = {} \/ model_type = "error"
       THEN GenResult("None", "blank_512", NonePipe, cache, n, <<>>)
    ELSE
      Bind(AdvancedCacheKey(model_type, use_alternate_llm), LAMBDA cache_key :
      Bind(CacheCheck(cache, cache_key, <<>>), LAMBDA chk :
      Bind(IF IsNone(chk.pipe)
              THEN LoadAndCache(chk.cache, n, cache_key, model_type,
                                use_alternate_llm, third_party_ok, chk.log)
              ELSE Loaded(FALSE, chk.pipe, chk.config, chk.cache, n, chk.log),
           LAMBDA got :
          IF got.failed \/ IsNone(got.pipe) \/ got.config = NoneConfig
             THEN GenResult("None", "blank_512", NonePipe, got.cache, got.loads, got.log)
             ELSE RunPipeline(got.cache, got.loads, got.pipe, got.config,
                              got.config.scheduler_class, scheduler, inference,
                              got.log))))

\* HiDreamImg2Img.generate
Img2ImgGenerate(cache, n, model_type, use_alternate_llm, scheduler, third_party_ok, inference) ==
    IF DOMAIN MODEL_CONFIGS = {} \/ model_type = "error"
       THEN GenResult("None", "blank_512", NonePipe, cache, n, <<>>)
    ELSE
      Bind(Img2ImgCacheKey(model_type, use_alternate_llm), LAMBDA cache_key :
      Bind(CacheCheck(cache, cache_key, <<>>), LAMBDA chk :
      Bind(IF IsNone(chk.pipe)
              THEN Img2ImgLoadAndCache(chk.cache, n, cache_key, model_type,
                                       use_alternate_llm, third_party_ok, chk.log)
              ELSE Loaded(FALSE, chk.pipe, chk.config, chk.cache, n, chk.log),
           LAMBDA got :
          IF got.failed \/ IsNone(got.pipe) \/ got.config = NoneConfig
             THEN GenResult("None", "blank_512", NonePipe, got.cache, got.loads, got.log)
             ELSE RunPipeline(got.cache, got.loads, got.pipe, got.config,
                              got.config.scheduler_class, scheduler, inference,
                              got.log))))

----------------------------------------------------------------------------
\* Teardown entry points

\* global_cleanup.  Its first statement, torch.cuda.synchronize(), is not
\* guarded by torch.cuda.is_available() and raises on a host without CUDA.
global_cleanup(cache) ==
    IF ~cuda_available
       THEN [raised |-> "RuntimeError", result |-> "raised", cache |-> cache,
             log |-> <<>>]
       ELSE Bind(cleanup_models(cache, <<Ev("synchronize", "", NonePipe)>>),
                 LAMBDA c :
                 [raised |-> "None", result |-> "True", cache |-> c.cache,
                  log |-> c.log \o <<Ev("gc", "", NonePipe), Ev("gc", "", NonePipe),
                                     Ev("empty_cache", "", NonePipe),
                                     Ev("synchronize", "", NonePipe)>>])

\* A wrapper that calls the host's handler first and evicts afterwards.
wrapped_unload_OriginalFirst(cache, original_result) ==
    Bind(cleanup_models(cache, <<Ev("original_unload", original_result, NonePipe)>>),
         LAMBDA c :
         [cache |-> c.cache, result |-> original_result, log |-> c.log])

\* wrapped_unload: HiDreamSampler.cleanup_models(), then
\* return original_unload().  original_result is what the host's handler
\* returns.
wrapped_unload(cache, original_result) ==
    Bind(cleanup_models(cache, <<>>), LAMBDA c :
         [cache |-> c.cache, result |-> original_result,
          log |-> Append(c.log, Ev("original_unload", original_result, NonePipe))])

\* comfy.model_management.unload_all_models as the host defines it: it
\* does not touch the HiDream cache.
original_unload(cache, original_result) ==
    [cache |-> cache, result |-> original_result,
     log |-> <<Ev("original_unload", original_result, NonePipe)>>]

\* The registration block at the end of the module: whether
\* unload_all_models carries _hidream_wrapped after it ran.
RegisterHook(has_unload, already_wrapped) ==
    IF has_unload THEN TRUE ELSE already_wrapped

\* A registration block without the _hidream_wrapped test: every run wraps
\* the current handler again.
RegisterWrappers_AlwaysWraps(has_unload, chain) ==
    IF has_unload THEN <<"registered">> \o chain ELSE chain

\* The registration block on the chain of wrappers: when the host has
\* unload_all_models and the current handler does not carry
\* _hidream_wrapped, a wrapped_unload closing over the module being
\* initialised is put around it.
RegisterWrappers(has_unload, chain) ==
    IF has_unload /\ chain = <<>> THEN <<"registered">> \o chain ELSE chain

\* The module is executed as a new module object: the closures of the
\* module it replaces keep the old module's globals.
Replaced(chain) == [i \in DOMAIN chain |-> "replaced"]

\* comfy.model_management.unload_all_models() called by the host: each
\* wrapper runs cleanup_models of the HiDreamSampler class its module
\* namespace names and then the handler it wrapped; the innermost handler
\* is the host's own.  cache is the _model_cache of the registered module,
\* stale the one of the replaced module.
RECURSIVE UnloadAllModels(_, _, _, _, _)
UnloadAllModels(chain, cache, stale, original_result, log) ==
    IF chain = <<>>
       THEN Bind(original_unload(cache, original_result), LAMBDA o :
                [cache |-> o.cache, stale |-> stale, result |-> o.result,
                 log |-> log \o o.log])
    ELSE IF Len(chain) = 1
       THEN Bind(wrapped_unload(IF Head(chain) = "registered" THEN cache ELSE stale,
                                original_result), LAMBDA w :
                [cache |-> IF Head(chain) = "registered" THEN w.cache ELSE cache,
                 stale |-> IF Head(chain) = "registered" THEN stale ELSE w.cache,
                 result |-> w.result,
                 log |-> log \o w.log])
    ELSE Bind(cleanup_models(IF Head(chain) = "registered" THEN cache ELSE stale,
                             log), LAMBDA c :
                UnloadAllModels(Tail(chain),
                                IF Head(chain) = "registered" THEN c.cache ELSE cache,
                                IF Head(chain) = "registered" THEN stale ELSE c.cache,
                                original_result, c.log))

----------------------------------------------------------------------------
\* Resolutions
\*
\* A Python str that the code takes apart is a sequence of one-character
\* strings; a str that is only compared or used as a dict key is a string.

Str_SquareReso == <<"S", "q", "u", "a", "r", "e", " ", "R", "e", "s", "o">>
Str_Custom == <<"C", "u", "s", "t", "o", "m">>

DigitChars == <<"0", "1", "2", "3", "4", "5", "6", "7", "8", "9">>

\* str.split(sep) for a one-character separator
RECURSIVE Split(_, _)
Split(s, sep) ==
    IF \A i \in DOMAIN s : s[i] # sep
       THEN <<s>>
       ELSE LET k == CHOOSE i \in DOMAIN s :
                        s[i] = sep /\ \A j \in 1..(i - 1) : s[j] # sep
            IN  <<SubSeq(s, 1, k - 1)>> \o Split(SubSeq(s, k + 1, Len(s)), sep)

\* sub in s
Contains(s, sub) ==
    \E i \in 1..(Len(s) - Len(sub) + 1) : SubSeq(s, i, i + Len(sub) - 1) = sub

\* str.strip() of blanks
RECURSIVE Strip(_)
Strip(s) ==
    IF s = <<>> THEN s
    ELSE IF Head(s) = " " THEN Strip(Tail(s))
    ELSE IF s[Len(s)] = " " THEN Strip(SubSeq(s, 1, Len(s) - 1))
    ELSE s

RECURSIVE DigitsValue(_)
DigitsValue(s) ==
    IF s = <<>> THEN 0
    ELSE DigitsValue(SubSeq(s, 1, Len(s) - 1)) * 10
         + (CHOOSE d \in DOMAIN DigitChars : DigitChars[d] = s[Len(s)]) - 1

\* int(s) for an unsigned decimal literal: [raised, value]
int(s) ==
    Bind(Strip(s), LAMBDA t :
        IF t = <<>> \/ \E i \in DOMAIN t :
                          \A d \in DOMAIN DigitChars : DigitChars[d] # t[i]
           THEN [raised |-> "ValueError", value |-> 0]
           ELSE [raised |-> "None", value |-> DigitsValue(t)])

\* The body of the try block shared by parse_aspect_ratio and
\* parse_dimensions; any exception gives the fallback 1024, 1024.
\*   dims_part = aspect_ratio_str.split("(")[1].split(")")[0]
\*   width, height = dims_part.split("\u00d7")
\*   return int(width), int(height)
ParseLabel(aspect_ratio_str) ==
    Bind(Split(aspect_ratio_str, "("), LAMBDA opened :
        IF Len(opened) < 2 THEN <<1024, 1024>>
        ELSE Bind(Split(Split(opened[2], ")")[1], "×"), LAMBDA wh :
             IF Len(wh) # 2 THEN <<1024, 1024>>
             ELSE Bind(int(wh[1]), LAMBDA width :
                  Bind(int(wh[2]), LAMBDA height :
                      IF width.raised # "None" \/ height.raised # "None"
                         THEN <<1024, 1024>>
                         ELSE <<width.value, height.value>>))))

\* HiDreamSampler.parse_aspect_ratio
parse_aspect_ratio(aspect_ratio_str) == ParseLabel(aspect_ratio_str)

\* HiDreamSamplerAdvanced.parse_dimensions
parse_dimensions(aspect_ratio_str) ==
    IF Contains(aspect_ratio_str, Str_SquareReso)
       THEN <<1024, 1024>>
       ELSE ParseLabel(aspect_ratio_str)

\* A rounding that rounds up to the next multiple of 64.
DivisibleBy64_RoundsUp(v) == ((v + 63) \div 64) * 64

\* (v // 64) * 64
DivisibleBy64(v) == (v \div 64) * 64

\* HiDreamSampler.generate: the (width, height) it calls the pipeline with.
SamplerPipelineSize(aspect_ratio) ==
    Bind(parse_aspect_ratio(aspect_ratio), LAMBDA size :
        [requested |-> size,
         passed |-> <<DivisibleBy64(size[1]), DivisibleBy64(size[2])>>])

\* HiDreamSamplerAdvanced.generate: the (width, height) it calls the pipeline
\* with; it rounds once after choosing the size and once more in the
\* inference block.
AdvancedPipelineSize(aspect_ratio, square_resolution, custom_width, custom_height) ==
    Bind(IF Contains(aspect_ratio, Str_SquareReso)
            THEN <<square_resolution, square_resolution>>
         ELSE IF aspect_ratio = Str_Custom
            THEN <<custom_width, custom_height>>
         ELSE parse_dimensions(aspect_ratio), LAMBDA size :
        [requested |-> size,
         passed |-> <<DivisibleBy64(DivisibleBy64(size[1])),
                      DivisibleBy64(DivisibleBy64(size[2]))>>])

\* HiDreamSampler.INPUT_TYPES: aspect_ratio_options
SamplerAspectRatioOptions ==
    {\* 1:1 (1024×1024)
     <<"1", ":", "1", " ", "(", "1", "0", "2", "4", "×", "1", "0", "2", "4", ")">>,
     \* 9:16 (768×1360)
     <<"9", ":", "1", "6", " ", "(", "7", "6", "8", "×", "1", "3", "6", "0", ")">>,
     \* 16:9 (1360×768)
     <<"1", "6", ":", "9", " ", "(", "1", "3", "6", "0", "×", "7", "6", "8", ")">>,
     \* 3:4 (880×1168)
     <<"3", ":", "4", " ", "(", "8", "8", "0", "×", "1", "1", "6", "8", ")">>,
     \* 4:3 (1168×880)
     <<"4", ":", "3", " ", "(", "1", "1", "6", "8", "×", "8", "8", "0", ")">>,
     \* 3:2 (1248×832)
     <<"3", ":", "2", " ", "(", "1", "2", "4", "8", "×", "8", "3", "2", ")">>,
     \* 2:3 (832×1248)
     <<"2", ":", "3", " ", "(", "8", "3", "2", "×", "1", "2", "4", "8", ")">>}

\* HiDreamSamplerAdvanced.INPUT_TYPES: aspect_ratio_options
AdvancedAspectRatioOptions ==
    {\* 1:1 (Square Reso)
     <<"1", ":", "1", " ", "(", "S", "q", "u", "a", "r", "e", " ", "R", "e", "s", "o", ")">>,
     \* 9:16 (768×1360)
     <<"9", ":", "1", "6", " ", "(", "7", "6", "8", "×", "1", "3", "6", "0", ")">>,
     \* 16:9 (1360×768)
     <<"1", "6", ":", "9", " ", "(", "1", "3", "6", "0", "×", "7", "6", "8", ")">>,
     \* 3:4 (880×1168)
     <<"3", ":", "4", " ", "(", "8", "8", "0", "×", "1", "1", "6", "8", ")">>,
     \* 4:3 (1168×880)
     <<"4", ":", "3", " ", "(", "1", "1", "6", "8", "×", "8", "8", "0", ")">>,
     \* 3:2 (1248×832)
     <<"3", ":", "2", " ", "(", "1", "2", "4", "8", "×", "8", "3", "2", ")">>,
     \* 2:3 (832×1248)
     <<"2", ":", "3", " ", "(", "8", "3", "2", "×", "1", "2", "4", "8", ")">>,
     \* Custom
     <<"C", "u", "s", "t", "o", "m">>}

\* HiDreamResolutionSelect._RESOLUTION_PRESETS; None is <<>>.
RESOLUTION_PRESETS ==
    [preset \in {"1:1 (Square Reso)",
                 "1:2 Tablet (704 x 1408)",
                 "2:1 Rectangle (1408 x 704)",
                 "2:3 Portrait (704 x 1344)",
                 "3:2 Landscape (1344 x 704)",
                 "12:25 Poster (704 x 1472)",
                 "25:12 Banner (1472 x 704)",
                 "4:5 Classic (896 x 1120)",
                 "5:4 Classic (1120 x 896)",
                 "9:16 Portrait (768 x 1344)",
                 "16:9 Widescreen (1344 x 768)",
                 "1:3 Vertical Poster (576 x 1728)",
                 "3:1 Panoramic (1728 x 576)",
                 "1:4 Ultrawide (512 x 2048)",
                 "4:1 Banner (2048 x 512)",
                 "Custom Square"} |->
        CASE preset = "1:1 (Square Reso)" -> <<1024, 1024>>
          [] preset = "1:2 Tablet (704 x 1408)" -> <<704, 1408>>
          [] preset = "2:1 Rectangle (1408 x 704)" -> <<1408, 704>>
          [] preset = "2:3 Portrait (704 x 1344)" -> <<704, 1344>>
          [] preset = "3:2 Landscape (1344 x 704)" -> <<1344, 704>>
          [] preset = "12:25 Poster (704 x 1472)" -> <<704, 1472>>
          [] preset = "25:12 Banner (1472 x 704)" -> <<1472, 704>>
          [] preset = "4:5 Classic (896 x 1120)" -> <<896, 1120>>
          [] preset = "5:4 Classic (1120 x 896)" -> <<1120, 896>>
          [] preset = "9:16 Portrait (768 x 1344)" -> <<768, 1344>>
          [] preset = "16:9 Widescreen (1344 x 768)" -> <<1344, 768>>
          [] preset = "1:3 Vertical Poster (576 x 1728)" -> <<576, 1728>>
          [] preset = "3:1 Panoramic (1728 x 576)" -> <<1728, 576>>
          [] preset = "1:4 Ultrawide (512 x 2048)" -> <<512, 2048>>
          [] preset = "4:1 Banner (2048 x 512)" -> <<2048, 512>>
          [] preset = "Custom Square" -> <<>>]

\* HiDreamResolutionSelect.get_resolution
get_resolution(resolution_preset, custom_square_size) ==
    IF resolution_preset = "Custom Square"
       THEN <<custom_square_size, custom_square_size>>
    ELSE IF resolution_preset \in DOMAIN RESOLUTION_PRESETS
            /\ RESOLUTION_PRESETS[resolution_preset] # <<>>
       THEN RESOLUTION_PRESETS[resolution_preset]
    ELSE <<1024, 1024>>

----------------------------------------------------------------------------
\* Inputs

\* model_type values the calls pass: an NF4 model and a BitsAndBytes model
\* of the source, "error" (the placeholder input of INPUT_TYPES when no
\* model is available) and one that no configuration table names.
ModelTypeInputs == {"fast-nf4", "full", "error", "sdxl"}

\* scheduler values the calls pass: one of scheduler_options that replaces
\* the scheduler the pipeline was loaded with.
SchedulerInputs == {"Karras Euler"}

\* What the third-party libraries do during a call: everything works, the
\* loader's from_pretrained raises, or the pipeline call raises.
Outcomes == {"ok", "load_raises", "inference_raises"}

ThirdPartyOk(outcome) == outcome # "load_raises"

Inference(outcome) == IF outcome = "inference_raises" THEN "raise" ELSE "ok"

OriginalResults == {"None", "freed"}

\* A pipeline none of whose four sub-components is referenced any more.
TornDown(pipe) ==
    /\ pipe.has_transformer => pipe.transformer = 0
    /\ pipe.text_encoder_4 = 0
    /\ pipe.tokenizer_4 = 0
    /\ pipe.scheduler = NoneSched

\* The name of an event; a teardown that left a sub-component referenced
\* is named apart.
EventName(e) ==
    IF e.ev = "teardown" /\ ~TornDown(e.pipe) THEN "teardown_incomplete" ELSE e.ev

\* The names of a log's events.
EventNames(log) == [i \in DOMAIN log |-> EventName(log[i])]

\* The key of the log's "insert" event, "" when the call inserted nothing.
InsertedKey(log) ==
    IF \E i \in DOMAIN log : log[i].ev = "insert"
       THEN log[CHOOSE i \in DOMAIN log : log[i].ev = "insert"].key
       ELSE ""

\* The key and the pipeline of the log's first event called name ("" and
\* None when it has none).
EventKey(log, name) ==
    IF \E i \in DOMAIN log : log[i].ev = name
       THEN log[CHOOSE i \in DOMAIN log :
                    log[i].ev = name /\ \A j \in 1..(i - 1) : log[j].ev # name].key
       ELSE ""

EventPipe(log, name) ==
    IF \E i \in DOMAIN log : log[i].ev = name
       THEN log[CHOOSE i \in DOMAIN log :
                    log[i].ev = name /\ \A j \in 1..(i - 1) : log[j].ev # name].pipe
       ELSE NonePipe

\* The record of a completed call kept in last: the operation, the node it
\* was called on, its model_type and use_alternate_llm arguments, the
\* exception that left it ("None" when it returned), its result, the key it
\* inserted, the identity and class of the pipeline it used or returned, the
\* scheduler option it applied, the scheduler the pipeline carried when the
\* call found it in the cache, the scheduler installed when inference
\* started, and the names of its events in program order.
Call(op, node, model_type, use_alternate_llm, raised, result, pipe, log) ==
    [op |-> op, node |-> node,
     model_type |-> model_type, use_alternate_llm |-> use_alternate_llm,
     raised |-> raised, result |-> result,
     inserted |-> InsertedKey(log),
     pipe_id |-> pipe.id, pipe_cls |-> pipe.cls,
     scheduler_option |-> EventKey(log, "set_scheduler"),
     scheduler_found |-> EventPipe(log, "cache_hit").scheduler,
     scheduler |-> EventPipe(log, "inference").scheduler,
     log |-> EventNames(log)]

\* The inputs the generate calls range over: the offered model types and
\* two that are not offered, both LLM choices, one scheduler option, every
\* outcome of the third-party calls, each node's default aspect ratio and
\* the default size.
GenerateInputs ==
    [model_types |-> ModelTypeInputs, llms |-> BOOLEAN,
     schedulers |-> SchedulerInputs, outcomes |-> Outcomes,
     sampler_aspect_ratios |->
        {<<"1", ":", "1", " ", "(", "1", "0", "2", "4", "×", "1", "0", "2", "4", ")">>},
     advanced_aspect_ratios |->
        {<<"1", ":", "1", " ", "(", "S", "q", "u", "a", "r", "e", " ", "R", "e", "s", "o", ")">>},
     sizes |-> {1024}]

\* No resolution was worked out by the last call.
NoResolution ==
    [node |-> "", aspect_ratio |-> <<>>, preset |-> "", requested |-> <<0, 0>>,
     result |-> <<0, 0>>, invoked |-> FALSE]

\* The resolution of a generate call: the label it was given, the size the
\* label (or the square or custom inputs) selects, the size the call gives
\* the pipeline, and whether the call got to invoke the pipeline.
Resolution(node, aspect_ratio, size, log) ==
    Bind(size, LAMBDA sz :
        [node |-> node, aspect_ratio |-> aspect_ratio, preset |-> "",
         requested |-> sz.requested, result |-> sz.passed,
         invoked |-> \E i \in DOMAIN log : log[i].ev = "inference"])

\* The node that inserted the cached entry, after a call of node (""
\* for a call that is no generate) that inserted under key inserted ("" for
\* none) and left the cache as cache.
InsertedBy(before, node, inserted, cache) ==
    IF inserted # "" THEN node
    ELSE IF cache = <<>> THEN ""
    ELSE before

\* The capabilities of the host process the module finds at import.
Capabilities == {"hi_diffusers", "bitsandbytes", "optimum", "gptq", "cuda",
                 "unload_all_models"}

\* The host environments: the complete one, and each one lacking a single
\* capability.
HostEnvironments ==
    {missing \in SUBSET Capabilities : \A a, b \in missing : a = b}

----------------------------------------------------------------------------
\* The state machine

Init ==
    /\ \E missing \in HostEnvironments :
        /\ hidream_classes_loaded = ("hi_diffusers" \notin missing)
        /\ bnb_available = ("bitsandbytes" \notin missing)
        /\ optimum_available = ("optimum" \notin missing)
        /\ gptq_support_available = ("gptq" \notin missing)
        /\ cuda_available = ("cuda" \notin missing)
        /\ host_has_unload = ("unload_all_models" \notin missing)
    /\ MODEL_CONFIGS = FilterModelConfigs(bnb_available, optimum_available,
                                          gptq_support_available,
                                          hidream_classes_loaded)
    /\ unload_wrapped = RegisterHook(host_has_unload, FALSE)
    /\ wrappers = RegisterWrappers(host_has_unload, <<>>)
    /\ stale_cache = <<>>
    /\ inserted_by = ""
    /\ res = NoResolution
    /\ model_cache = <<>>
    /\ loads = 0
    /\ last = Call("import", "", "", FALSE, "None", "", NonePipe, <<>>)

SamplerGenerateStep(inputs) ==
    \E model_type \in inputs.model_types, use_alternate_llm \in inputs.llms,
       scheduler \in inputs.schedulers, outcome \in inputs.outcomes,
       aspect_ratio \in inputs.sampler_aspect_ratios :
        \E r \in {SamplerGenerate(model_cache, loads, model_type, use_alternate_llm,
                                  scheduler, ThirdPartyOk(outcome),
                                  Inference(outcome))} :
            /\ r.loads <= MaxLoads
            /\ model_cache' = r.cache
            /\ loads' = r.loads
            /\ inserted_by' = InsertedBy(inserted_by, "HiDreamSampler",
                                         InsertedKey(r.log), r.cache)
            /\ last' = Call("generate", "HiDreamSampler", model_type,
                            use_alternate_llm, r.raised, r.result, r.pipe,
                            r.log)
            /\ res' = Resolution("HiDreamSampler", aspect_ratio,
                                 SamplerPipelineSize(aspect_ratio), r.log)
            /\ UNCHANGED <<env, hook>>

SamplerGenerateCall == SamplerGenerateStep(GenerateInputs)

AdvancedGenerateStep(inputs) ==
    \E model_type \in inputs.model_types, use_alternate_llm \in inputs.llms,
       scheduler \in inputs.schedulers, outcome \in inputs.outcomes,
       aspect_ratio \in inputs.advanced_aspect_ratios,
       square_resolution \in inputs.sizes, custom_width \in inputs.sizes,
       custom_height \in inputs.sizes :
        \E r \in {AdvancedGenerate(model_cache, loads, model_type, use_alternate_llm,
                                   scheduler, ThirdPartyOk(outcome),
                                   Inference(outcome))} :
            /\ r.loads <= MaxLoads
            /\ model_cache' = r.cache
            /\ loads' = r.loads
            /\ inserted_by' = InsertedBy(inserted_by, "HiDreamSamplerAdvanced",
                                         InsertedKey(r.log), r.cache)
            /\ last' = Call("generate", "HiDreamSamplerAdvanced", model_type,
                            use_alternate_llm, r.raised,
                            r.result, r.pipe, r.log)
            /\ res' = Resolution("HiDreamSamplerAdvanced", aspect_ratio,
                                 AdvancedPipelineSize(aspect_ratio, square_resolution,
                                                      custom_width, custom_height),
                                 r.log)
            /\ UNCHANGED <<env, hook>>

AdvancedGenerateCall == AdvancedGenerateStep(GenerateInputs)

Img2ImgGenerateStep(inputs) ==
    \E model_type \in inputs.model_types, use_alternate_llm \in inputs.llms,
       scheduler \in inputs.schedulers, outcome \in inputs.outcomes :
        \E r \in {Img2ImgGenerate(model_cache, loads, model_type, use_alternate_llm,
                                  scheduler, ThirdPartyOk(outcome),
                                  Inference(outcome))} :
            /\ r.loads <= MaxLoads
            /\ model_cache' = r.cache
            /\ loads' = r.loads
            /\ inserted_by' = InsertedBy(inserted_by, "HiDreamImg2Img",
                                         InsertedKey(r.log), r.cache)
            /\ last' = Call("generate", "HiDreamImg2Img", model_type,
                            use_alternate_llm, r.raised, r.result, r.pipe,
                            r.log)
            /\ res' = NoResolution
            /\ UNCHANGED <<env, hook>>

Img2ImgGenerateCall == Img2ImgGenerateStep(GenerateInputs)

\* A direct call of the module-level load_models.
LoadModelsCall ==
    \E model_type \in ModelTypeInputs, use_alternate_llm \in BOOLEAN,
       third_party_ok \in BOOLEAN :
        \E r \in {load_models(model_cache, loads, model_type, use_alternate_llm,
                              third_party_ok, <<>>)} :
            /\ r.loads <= MaxLoads
            /\ model_cache' = r.cache
            /\ loads' = r.loads
            /\ inserted_by' = InsertedBy(inserted_by, "", "", r.cache)
            /\ last' = Call("load_models", "", model_type, use_alternate_llm,
                            r.raised,
                            IF r.raised = "None" THEN "pipe" ELSE "raised",
                            r.pipe, r.log)
            /\ res' = NoResolution
            /\ UNCHANGED <<env, hook>>

CleanupModelsCall ==
    \E r \in {cleanup_models(model_cache, <<>>)} :
        /\ model_cache' = r.cache
        /\ inserted_by' = InsertedBy(inserted_by, "", "", r.cache)
        /\ last' = Call("cleanup_models", "", "", FALSE, "None", r.result, NonePipe, r.log)
        /\ res' = NoResolution
        /\ UNCHANGED <<env, hook, loads>>

GlobalCleanupCall ==
    \E r \in {global_cleanup(model_cache)} :
        /\ model_cache' = r.cache
        /\ inserted_by' = InsertedBy(inserted_by, "", "", r.cache)
        /\ last' = Call("global_cleanup", "", "", FALSE, r.raised, r.result, NonePipe, r.log)
        /\ res' = NoResolution
        /\ UNCHANGED <<env, hook, loads>>

\* The host calls comfy.model_management.unload_all_models().
HostUnloadCall ==
    /\ host_has_unload
    /\ \E original_result \in OriginalResults :
        \E r \in {UnloadAllModels(wrappers, model_cache, stale_cache,
                                   original_result, <<>>)} :
            /\ model_cache' = r.cache
            /\ stale_cache' = r.stale
            /\ inserted_by' = InsertedBy(inserted_by, "", "", r.cache)
            /\ last' = Call("unload_all_models", "", "", FALSE, "None", r.result, NonePipe,
                            r.log)
    /\ res' = NoResolution
    /\ UNCHANGED <<env, unload_wrapped, wrappers, loads>>

\* importlib.reload of the module: its body runs again in the same module
\* namespace.  The class statement binds HiDreamSampler to a new class with
\* a new empty _model_cache; a wrapper registered earlier closes over this
\* namespace and finds the new class.
ReloadInPlace ==
    /\ model_cache' = <<>>
    /\ inserted_by' = ""
    /\ unload_wrapped' = RegisterHook(host_has_unload, unload_wrapped)
    /\ wrappers' = RegisterWrappers(host_has_unload, wrappers)
    /\ last' = Call("import", "", "", FALSE, "None", "reload", NonePipe, <<>>)
    /\ res' = NoResolution
    /\ UNCHANGED <<env, stale_cache, loads>>

\* The script is executed again as a new module object (the custom node is
\* loaded again after its sys.modules entry was dropped).  The new module
\* has its own HiDreamSampler and _model_cache; a wrapper registered earlier
\* keeps the globals of the module it was defined in.
ReimportFresh ==
    /\ model_cache' = <<>>
    /\ inserted_by' = ""
    /\ stale_cache' = IF \E i \in DOMAIN wrappers : wrappers[i] = "registered"
                         THEN model_cache ELSE stale_cache
    /\ unload_wrapped' = RegisterHook(host_has_unload, unload_wrapped)
    /\ wrappers' = RegisterWrappers(host_has_unload, Replaced(wrappers))
    /\ last' = Call("import", "", "", FALSE, "None", "reimport", NonePipe, <<>>)
    /\ res' = NoResolution
    /\ UNCHANGED <<env, loads>>

\* Code outside this module holds a reference to a cached pipeline (load_models
\* hands it out) or to the class attribute _model_cache, and releases the
\* pipeline: the entry's handle becomes None, loses its transformer
\* attribute, or has its transformer set to None.  These are the states the
\* validity checks of load_models and generate test for.
ExternalInvalidate ==
    \E i \in DOMAIN model_cache, how \in {"None", "delattr", "transformer=None"} :
        /\ LoadModelsEntryValid(model_cache[i].pipe)
        /\ model_cache' =
             [model_cache EXCEPT ![i].pipe =
                 IF how = "None" THEN NonePipe
                 ELSE IF how = "delattr"
                    THEN [@ EXCEPT !.has_transformer = FALSE, !.transformer = 0]
                 ELSE [@ EXCEPT !.transformer = 0]]
        /\ last' = Call("external", "", "", FALSE, "None", how, NonePipe, <<>>)
        /\ res' = NoResolution
        /\ UNCHANGED <<env, hook, loads, inserted_by>>

Next ==
    \/ SamplerGenerateCall
    \/ AdvancedGenerateCall
    \/ Img2ImgGenerateCall
    \/ LoadModelsCall
    \/ CleanupModelsCall
    \/ GlobalCleanupCall
    \/ HostUnloadCall
    \/ ExternalInvalidate

Spec == Init /\ [][Next]_vars

\* The module initialised again during the run, between generate calls of
\* a text-to-image and of the image-to-image node and the host's unload
\* calls.
NextReload ==
    \/ SamplerGenerateCall
    \/ Img2ImgGenerateCall
    \/ HostUnloadCall
    \/ ReloadInPlace
    \/ ReimportFresh

SpecReload == Init /\ [][NextReload]_vars

\* The resolution inputs: every offered aspect ratio; for square_resolution,
\* custom_width and custom_height (INT, 512 to 3072) both ends of the range
\* and a value inside it that is no multiple of 64.
SizeInputs == {512, 1000, 3072}

ResolutionInputs ==
    [model_types |-> {"fast-nf4"}, llms |-> {FALSE},
     schedulers |-> SchedulerInputs, outcomes |-> {"ok"},
     sampler_aspect_ratios |-> SamplerAspectRatioOptions,
     advanced_aspect_ratios |-> AdvancedAspectRatioOptions,
     sizes |-> SizeInputs]

\* custom_square_size: INT, min 64, max 1536, step 64
CustomSquareSizes == {64 * k : k \in 1..24}

SamplerGenerateSized == SamplerGenerateStep(ResolutionInputs)

AdvancedGenerateSized == AdvancedGenerateStep(ResolutionInputs)

\* HiDreamResolutionSelect.get_resolution on one of its presets.
GetResolutionCall ==
    \E resolution_preset \in DOMAIN RESOLUTION_PRESETS,
       custom_square_size \in CustomSquareSizes :
        /\ res' = [node |-> "HiDreamResolutionSelect", aspect_ratio |-> <<>>,
                   preset |-> resolution_preset,
                   requested |-> <<custom_square_size, custom_square_size>>,
                   result |-> get_resolution(resolution_preset, custom_square_size),
                   invoked |-> FALSE]
        /\ last' = Call("get_resolution", "HiDreamResolutionSelect", "", FALSE,
                        "None", "size", NonePipe, <<>>)
        /\ UNCHANGED <<env, hook, model_cache, inserted_by, loads>>

NextResolution ==
    \/ SamplerGenerateSized
    \/ AdvancedGenerateSized

\* The resolution handling of the two text-to-image nodes over all their
\* resolution inputs.
SpecResolution == Init /\ [][NextResolution]_vars

NextPresets == GetResolutionCall

\* The resolution selector over all its presets and custom sizes.
SpecPresets == Init /\ [][NextPresets]_vars

\* The scheduler inputs: every offered option, on two model types that
\* differ in scheduler class and shift.
SchedulerSpecInputs ==
    [model_types |-> {"full", "dev-nf4"}, llms |-> {FALSE},
     schedulers |-> scheduler_options, outcomes |-> {"ok", "inference_raises"},
     sampler_aspect_ratios |-> GenerateInputs.sampler_aspect_ratios,
     advanced_aspect_ratios |-> GenerateInputs.advanced_aspect_ratios,
     sizes |-> GenerateInputs.sizes]

SamplerGenerateScheduled == SamplerGenerateStep(SchedulerSpecInputs)

AdvancedGenerateScheduled == AdvancedGenerateStep(SchedulerSpecInputs)

Img2ImgGenerateScheduled == Img2ImgGenerateStep(SchedulerSpecInputs)

NextSchedulers ==
    \/ SamplerGenerateScheduled
    \/ AdvancedGenerateScheduled
    \/ Img2ImgGenerateScheduled

\* The generate methods of the three nodes over all scheduler options.
SpecSchedulers == Init /\ [][NextSchedulers]_vars

\* cleanup_models over caches of several entries and over teardowns that
\* raise.  _model_cache is a class attribute of the process and the loop of
\* cleanup_models runs over whatever keys it holds; the nodes themselves
\* keep at most one entry, so the caches are drawn as the input of the
\* method.  Every entry is a (pipe, config) pair as the nodes store it: the
\* pipeline load_models builds in this environment, under a key a node
\* builds.

\* Largest number of entries of a drawn cache.
MaxCached == 2

\* The assignment of a teardown that raises (0: none).
RaisingAssignments == 0..4

CachedInputs ==
    {[key |-> SamplerCacheKey("fast-nf4", FALSE), model_type |-> "fast-nf4",
      use_alternate_llm |-> FALSE],
     [key |-> Img2ImgCacheKey("fast-nf4", FALSE), model_type |-> "fast-nf4",
      use_alternate_llm |-> FALSE],
     [key |-> AdvancedCacheKey("full", TRUE), model_type |-> "full",
      use_alternate_llm |-> TRUE]}

\* self._model_cache[cache_key] = (pipe, config) after a successful load.
StoreLoaded(cache, in) ==
    IF in.model_type \notin DOMAIN MODEL_CONFIGS \/ in.key \in CacheKeys(cache)
       THEN cache
       ELSE LET ld == FreshLoad(cache, Len(cache), in.model_type,
                                in.use_alternate_llm, TRUE, <<>>)
            IN  IF ld.raised = "None"
                   THEN CachePut(cache, in.key, ld.pipe, ld.config)
                   ELSE cache

RECURSIVE CachesUpTo(_)
CachesUpTo(k) ==
    IF k = 0 THEN {<<>>}
    ELSE LET smaller == CachesUpTo(k - 1)
         IN  smaller \cup {StoreLoaded(c, in) : c \in smaller, in \in CachedInputs}

InitCleanup ==
    /\ \E missing \in HostEnvironments :
        /\ hidream_classes_loaded = ("hi_diffusers" \notin missing)
        /\ bnb_available = ("bitsandbytes" \notin missing)
        /\ optimum_available = ("optimum" \notin missing)
        /\ gptq_support_available = ("gptq" \notin missing)
        /\ cuda_available = ("cuda" \notin missing)
        /\ host_has_unload = ("unload_all_models" \notin missing)
    /\ MODEL_CONFIGS = FilterModelConfigs(bnb_available, optimum_available,
                                          gptq_support_available,
                                          hidream_classes_loaded)
    /\ unload_wrapped = RegisterHook(host_has_unload, FALSE)
    /\ wrappers = RegisterWrappers(host_has_unload, <<>>)
    /\ stale_cache = <<>>
    /\ res = NoResolution
    /\ model_cache \in CachesUpTo(MaxCached)
    /\ inserted_by = (IF model_cache = <<>> THEN "" ELSE "HiDreamSampler")
    /\ loads = Len(model_cache)
    /\ last = Call("import", "", "", FALSE, "None", "", NonePipe, <<>>)

\* HiDreamSampler.cleanup_models(), the teardown of each key raising or not.
CleanupModelsCatchingCall ==
    \E raises_at \in [1..Len(model_cache) -> RaisingAssignments] :
        \E r \in {cleanup_models_catching(model_cache, <<>>, raises_at)} :
            /\ model_cache' = r.cache
            /\ inserted_by' = InsertedBy(inserted_by, "", "", r.cache)
            /\ last' = Call("cleanup_models", "", "", FALSE, "None", r.result,
                            NonePipe, r.log)
            /\ res' = NoResolution
            /\ UNCHANGED <<env, hook, loads>>

NextCleanup ==
    \/ CleanupModelsCatchingCall
    \/ ExternalInvalidate

SpecCleanup == InitCleanup /\ [][NextCleanup]_vars

----------------------------------------------------------------------------
\* Vocabulary of the properties

Nodes == {"HiDreamSampler", "HiDreamSamplerAdvanced", "HiDreamImg2Img"}

\* The cache key the node's generate builds.
NodeCacheKey(node, model_type, use_alternate_llm) ==
    CASE node = "HiDreamSampler" -> SamplerCacheKey(model_type, use_alternate_llm)
      [] node = "HiDreamSamplerAdvanced" ->
             AdvancedCacheKey(model_type, use_alternate_llm)
      [] node = "HiDreamImg2Img" -> Img2ImgCacheKey(model_type, use_alternate_llm)

\* The names of a completed call's events contain name.
Has(names, name) == \E i \in DOMAIN names : names[i] = name

\* Every hit in the names of a call's events came after a load from disk
\* of the same call: the call's first lookup was a miss.
FirstLookupMissed(names) ==
    \A i \in DOMAIN names :
        names[i] = "cache_hit" => \E j \in 1..(i - 1) : names[j] = "from_pretrained"

\* The number of events called name.
Count(names, name) == Cardinality({i \in DOMAIN names : names[i] = name})

\* A cached pipeline whose handle is None, or which has no transformer
\* attribute, or whose transformer is None.
InvalidPipe(pipe) ==
    pipe.cls = "NoneType" \/ ~pipe.has_transformer \/ pipe.transformer = 0

\* The call was a generate that got past the early return for "error" and
\* for an empty configuration table.
IsLookupGenerate(call) ==
    /\ call.op = "generate"
    /\ call.model_type # "error"
    /\ DOMAIN MODEL_CONFIGS # {}

\* The call was a load_models that got to its cache lookup.
IsLookupLoadModels(call) ==
    /\ call.op = "load_models"
    /\ call.model_type \in DOMAIN MODEL_CONFIGS

\* The cache key the call looked up.
CallKey(call) ==
    IF call.op = "generate"
       THEN NodeCacheKey(call.node, call.model_type, call.use_alternate_llm)
       ELSE LoadModelsCacheKey(call.model_type, call.use_alternate_llm)

\* key is written by the image-to-image node.
KeyIsImg2Img(key) ==
    \E m \in DOMAIN ConfigTable :
        key \in {m \o "_img2img_standard", m \o "_img2img_alternate"}

\* key names model type m.
KeyNamesModelType(key, m) ==
    key \in {m \o "_standard", m \o "_alternate",
             m \o "_img2img_standard", m \o "_img2img_alternate"}

----------------------------------------------------------------------------
\* C1: after every completed call (generate on any of the three nodes,
\* load_models, cleanup_models, global_cleanup, the host's
\* unload_all_models) the shared cache holds at most one entry.
C1_AtMostOneEntry == Len(model_cache) <= 1

\* A generate has evicted the entry of another configuration and cached
\* its own.
C1_Witness ==
    /\ last.op = "generate"
    /\ Has(last.log, "pop")
    /\ last.inserted # ""
    /\ Len(model_cache) = 1

\* C2: once a call has loaded and inserted configuration B, B's key is the
\* only key of the cache, so every A # B cached earlier is gone; and a
\* generate for an available configuration whose key is not in the cache
\* misses and loads the model from disk again.
C2_SingleSlotEviction ==
    [][ /\ last'.inserted # "" => CacheKeys(model_cache') = {last'.inserted}
        /\ ( /\ IsLookupGenerate(last')
             /\ last'.model_type \in DOMAIN MODEL_CONFIGS
             /\ CallKey(last') \notin CacheKeys(model_cache) )
           => /\ Has(last'.log, "from_pretrained")
              /\ FirstLookupMissed(last'.log) ]_vars

\* B was loaded and inserted by a call that popped the entry of another key.
C2_Witness ==
    /\ last.inserted # ""
    /\ Has(last.log, "pop")
    /\ Has(last.log, "from_pretrained")
    /\ CacheKeys(model_cache) = {last.inserted}

\* C3: when the entry under the requested key is invalid (handle None, no
\* transformer attribute, or transformer None), the lookup of load_models
\* and of each generate does not return it: the call reports the entry
\* invalid, hits nothing before it has loaded the model from disk, uses or
\* returns only the newly loaded pipeline, and leaves under the key either
\* nothing or the newly loaded pipeline.
C3_InvalidEntryPurged ==
    [][ ( /\ IsLookupGenerate(last') \/ IsLookupLoadModels(last')
          /\ CallKey(last') \in CacheKeys(model_cache)
          /\ InvalidPipe(CacheGet(model_cache, CallKey(last')).pipe) )
        => /\ Has(last'.log, "invalid")
           /\ Has(last'.log, "from_pretrained")
           /\ FirstLookupMissed(last'.log)
           /\ last'.pipe_cls # "NoneType" => last'.pipe_id > loads
           /\ \A i \in DOMAIN model_cache' :
                 model_cache'[i].key = CallKey(last')
                 => /\ model_cache'[i].pipe.id > loads
                    /\ ~InvalidPipe(model_cache'[i].pipe) ]_vars

\* A lookup has found an invalid entry, and the call went on to load.
C3_Witness ==
    /\ last.op \in {"generate", "load_models"}
    /\ Has(last.log, "invalid")
    /\ Has(last.log, "from_pretrained")

\* C4: when cleanup_models or global_cleanup has returned, the cache is
\* empty, and the first lookup of the generate or load_models call that
\* follows misses, whatever key it asks for.
C4_CleanupEmptiesCache ==
    [][ /\ (last'.op \in {"cleanup_models", "global_cleanup"}
            /\ last'.raised = "None")
           => model_cache' = <<>>
        /\ ( /\ last.op \in {"cleanup_models", "global_cleanup"}
             /\ last.raised = "None"
             /\ last'.op \in {"generate", "load_models"} )
           => /\ model_cache = <<>>
              /\ FirstLookupMissed(last'.log) ]_vars

\* cleanup_models or global_cleanup has returned after removing an entry.
C4_Witness ==
    /\ last.op \in {"cleanup_models", "global_cleanup"}
    /\ last.raised = "None"
    /\ Has(last.log, "pop")
    /\ model_cache = <<>>

\* C5 as stated: load_models called with a model_type that is not a key of
\* MODEL_CONFIGS raises ValueError, loads no model in its place, returns no
\* pipeline and leaves the cache as it was.
C5_UnknownModelTypeValueError ==
    [][ (last'.op = "load_models" /\ last'.model_type \notin DOMAIN MODEL_CONFIGS)
        => /\ last'.raised = "ValueError"
           /\ ~Has(last'.log, "from_pretrained")
           /\ last'.pipe_cls = "NoneType"
           /\ model_cache' = model_cache ]_vars

\* C5: load_models called with a model_type that is not a key of
\* MODEL_CONFIGS raises ValueError when the HiDream classes were imported
\* and ImportError when they were not; either way it loads no model in its
\* place, returns no pipeline and leaves the cache as it was.
C5_UnknownModelTypeRaises ==
    [][ (last'.op = "load_models" /\ last'.model_type \notin DOMAIN MODEL_CONFIGS)
        => /\ last'.raised = IF hidream_classes_loaded THEN "ValueError"
                                                       ELSE "ImportError"
           /\ last'.result = "raised"
           /\ ~Has(last'.log, "from_pretrained")
           /\ last'.pipe_cls = "NoneType"
           /\ model_cache' = model_cache
           /\ loads' = loads ]_vars

\* load_models has raised ValueError for an unknown model type while the
\* cache held an entry.
C5_Witness ==
    /\ last.op = "load_models"
    /\ last.model_type \notin DOMAIN MODEL_CONFIGS
    /\ last.raised = "ValueError"
    /\ model_cache # <<>>

\* C6: once the hook is registered, a call of unload_all_models runs the
\* whole of cleanup_models first and the host's original handler after it,
\* exactly once, and returns what the original returned; the cache is
\* empty afterwards.
C6_WrappedUnload ==
    [][ (last'.op = "unload_all_models" /\ unload_wrapped)
        => /\ \A c \in {cleanup_models(model_cache, <<>>)} :
                 /\ last'.log = EventNames(c.log) \o <<"original_unload">>
                 /\ model_cache' = c.cache
           /\ model_cache' = <<>>
           /\ Count(last'.log, "original_unload") = 1
           /\ \A original_result \in OriginalResults :
                 \A r \in {wrapped_unload(model_cache, original_result)} :
                     /\ r.result = original_result
                     /\ r.log[Len(r.log)] =
                            Ev("original_unload", original_result, NonePipe)
           /\ last'.result \in OriginalResults ]_vars

\* The wrapped unload_all_models has evicted an entry and then called the
\* original handler.
C6_Witness ==
    /\ last.op = "unload_all_models"
    /\ unload_wrapped
    /\ Has(last.log, "pop")
    /\ last.log[Len(last.log)] = "original_unload"
    /\ model_cache = <<>>

C8_HitLoadsNothing ==
    [][ ( /\ IsLookupGenerate(last')
          /\ CallKey(last') \in CacheKeys(model_cache)
          /\ ~InvalidPipe(CacheGet(model_cache, CallKey(last')).pipe) )
        => /\ ~Has(last'.log, "from_pretrained")
           /\ ~Has(last'.log, "pop")
           /\ ~Has(last'.log, "insert")
           /\ loads' = loads
           /\ KeyList(model_cache') = KeyList(model_cache)
           /\ last'.pipe_id = CacheGet(model_cache, CallKey(last')).pipe.id
           /\ \A i \in DOMAIN model_cache :
                 /\ model_cache'[i].config = model_cache[i].config
                 /\ [model_cache'[i].pipe EXCEPT !.scheduler = NoneSched]
                      = [model_cache[i].pipe EXCEPT !.scheduler = NoneSched] ]_vars

\* A generate has run inference on the pipeline it found in the cache.
C8_Witness ==
    /\ last.op = "generate"
    /\ Has(last.log, "cache_hit")
    /\ Has(last.log, "inference")
    /\ ~Has(last.log, "from_pretrained")
    /\ last.result = "image"

\* C9: no key of a text-to-image node equals a key of the image-to-image
\* node, two distinct (model type, LLM choice) configurations never get the
\* same key within a node kind, a cached pipeline's class is the one of
\* the key's node kind, and a generate runs only the pipeline class of its
\* own node kind.
C9_KeysDisjoint ==
    /\ \A m1, m2 \in DOMAIN MODEL_CONFIGS, a1, a2 \in BOOLEAN :
          /\ SamplerCacheKey(m1, a1) # Img2ImgCacheKey(m2, a2)
          /\ AdvancedCacheKey(m1, a1) # Img2ImgCacheKey(m2, a2)
          /\ LoadModelsCacheKey(m1, a1) # Img2ImgCacheKey(m2, a2)
          /\ <<m1, a1>> # <<m2, a2>>
                => /\ SamplerCacheKey(m1, a1) # SamplerCacheKey(m2, a2)
                   /\ AdvancedCacheKey(m1, a1) # AdvancedCacheKey(m2, a2)
                   /\ SamplerCacheKey(m1, a1) # AdvancedCacheKey(m2, a2)
                   /\ Img2ImgCacheKey(m1, a1) # Img2ImgCacheKey(m2, a2)
    /\ \A i \in DOMAIN model_cache :
          model_cache[i].pipe.cls # "NoneType"
          => (model_cache[i].pipe.cls = "HiDreamImageToImagePipeline"
                <=> KeyIsImg2Img(model_cache[i].key))
    /\ (last.op = "generate" /\ last.pipe_cls # "NoneType")
          => (last.pipe_cls = "HiDreamImageToImagePipeline"
                <=> last.node = "HiDreamImg2Img")

\* The image-to-image node has evicted another entry and cached its own
\* pipeline under its own key.
C9_Witness ==
    /\ last.op = "generate"
    /\ last.node = "HiDreamImg2Img"
    /\ Has(last.log, "pop")
    /\ KeyIsImg2Img(last.inserted)
    /\ \E i \in DOMAIN model_cache :
          model_cache[i].pipe.cls = "HiDreamImageToImagePipeline"

\* C10: every cache entry holds a pipeline handle together with the
\* MODEL_CONFIGS record of the model type its key names.
C10_ConfigOfKey ==
    \A i \in DOMAIN model_cache :
        /\ DOMAIN model_cache[i] = {"key", "pipe", "config"}
        /\ \E m \in DOMAIN MODEL_CONFIGS : KeyNamesModelType(model_cache[i].key, m)
        /\ \A m \in DOMAIN ConfigTable :
              KeyNamesModelType(model_cache[i].key, m)
              => /\ m \in DOMAIN MODEL_CONFIGS
                 /\ model_cache[i].config = MODEL_CONFIGS[m]

\* The cache holds the entry of a second configuration, inserted after the
\* first was evicted.
C10_Witness ==
    /\ Len(model_cache) = 1
    /\ last.inserted = model_cache[1].key
    /\ Has(last.log, "pop")
    /\ model_cache[1].config = MODEL_CONFIGS[last.model_type]

-----------------------------------------------------------------------------
\* C11: the three node classes work on one cache.  When the cache holds a
\* valid entry that the generate of one node inserted and the generate of
\* another node gets to its lookup: if the call's key is the entry's key the
\* call is a hit on that entry and loads nothing; if it is another key the
\* call pops the entry, and the entry's key is gone from the cache when the
\* call returns.  HiDreamSampler and HiDreamSamplerAdvanced compute the same
\* key for the same (model_type, use_alternate_llm), so each hits the entry
\* the other inserted.
C11_SharedCache ==
    [][(/\ inserted_by # ""
        /\ Len(model_cache) = 1
        /\ GenerateEntryValid(model_cache[1].pipe, model_cache[1].config)
        /\ IsLookupGenerate(last')
        /\ last'.node # inserted_by)
       => /\ CallKey(last') = model_cache[1].key
               => /\ last'.log[1] = "cache_hit"
                  /\ ~Has(last'.log, "from_pretrained")
                  /\ last'.pipe_id = model_cache[1].pipe.id
          /\ CallKey(last') # model_cache[1].key
               => /\ Has(last'.log, "pop")
                  /\ model_cache[1].key \notin CacheKeys(model_cache')
          /\ (/\ {last'.node, inserted_by}
                    = {"HiDreamSampler", "HiDreamSamplerAdvanced"}
              /\ model_cache[1].key
                    = LoadModelsCacheKey(last'.model_type,
                                         last'.use_alternate_llm))
               => last'.log[1] = "cache_hit"]_vars

\* The advanced node's generate has just hit, without loading, the entry
\* that HiDreamSampler's generate inserted.
C11_Witness ==
    /\ last.op = "generate"
    /\ last.node = "HiDreamSamplerAdvanced"
    /\ inserted_by = "HiDreamSampler"
    /\ last.inserted = ""
    /\ last.log # <<>>
    /\ last.log[1] = "cache_hit"
    /\ last.result = "image"

-----------------------------------------------------------------------------
-----------------------------------------------------------------------------
\* C13: however often the registration block has run, unload_all_models
\* carries at most one HiDream wrapper, and one call of it by the host runs
\* the HiDream cleanup exactly once (its three collection passes appear
\* once) and then the host's original handler exactly once.
C13_WrappedAtMostOnce ==
    /\ Len(wrappers) <= 1
    /\ last.op = "unload_all_models"
          => /\ Count(last.log, "gc") = 3
             /\ Count(last.log, "original_unload") = 1
             /\ last.log[Len(last.log)] = "original_unload"

\* The host has just called unload_all_models after the module was
\* initialised again: the one wrapper in place is the one an earlier
\* initialisation installed.
C13_Witness ==
    /\ last.op = "unload_all_models"
    /\ wrappers = <<"replaced">>
    /\ Count(last.log, "original_unload") = 1

-----------------------------------------------------------------------------
\* C14 (as stated): also after the module has been initialised more than
\* once, when the host's unload_all_models call returns, the cache that the
\* currently registered node classes read and write is empty.
C14_HostUnloadEmptiesCurrentCache ==
    (last.op = "unload_all_models" /\ wrappers # <<>>) => model_cache = <<>>

\* The host's unload_all_models has returned after a re-initialisation and
\* the current node classes' cache still holds a loaded pipeline: the one
\* wrapper in place belongs to the replaced module and emptied that
\* module's cache.
C14_Witness ==
    /\ last.op = "unload_all_models"
    /\ wrappers = <<"replaced">>
    /\ Len(model_cache) = 1
    /\ ~InvalidPipe(model_cache[1].pipe)

-----------------------------------------------------------------------------
\* C15 (as stated): every (width, height) that get_resolution returns, for
\* every preset and every custom_square_size from 64 to 1536 in steps of
\* 64, consists of multiples of 64, so that (v // 64) * 64 leaves both
\* numbers unchanged.
C15_ReturnsMultiplesOf64 ==
    res.node = "HiDreamResolutionSelect"
        => \A i \in 1..2 : /\ res.result[i] % 64 = 0
                            /\ DivisibleBy64(res.result[i]) = res.result[i]

\* get_resolution has returned the "4:5 Classic" preset: its height 1120 is
\* no multiple of 64 and the samplers' rounding turns it into 1088.
C15_Witness ==
    /\ res.node = "HiDreamResolutionSelect"
    /\ res.preset = "4:5 Classic (896 x 1120)"
    /\ res.result = <<896, 1120>>
    /\ DivisibleBy64(res.result[2]) = 1088

-----------------------------------------------------------------------------
\* C16 (as stated): when HiDreamSampler.generate or
\* HiDreamSamplerAdvanced.generate invokes the pipeline for an aspect_ratio
\* option whose label names its dimensions, the width and height it passes
\* are exactly the ones the label names.
C16_LabelledSizePassed ==
    (/\ res.node \in {"HiDreamSampler", "HiDreamSamplerAdvanced"}
     /\ res.invoked
     /\ Len(Split(res.aspect_ratio, "×")) = 2)
        => res.result = ParseLabel(res.aspect_ratio)

\* HiDreamSampler.generate has invoked the pipeline for "9:16 (768×1360)"
\* with a height of 1344.
C16_Witness ==
    /\ res.node = "HiDreamSampler"
    /\ res.invoked
    /\ ParseLabel(res.aspect_ratio) = <<768, 1360>>
    /\ res.result = <<768, 1344>>

-----------------------------------------------------------------------------
\* C17: for every aspect-ratio option, square_resolution and custom
\* width/height, the width and the height that HiDreamSampler.generate and
\* HiDreamSamplerAdvanced.generate pass to the pipeline are multiples of 64,
\* not larger than the requested value and smaller than it by less than 64.
C17_RoundedDownToMultipleOf64 ==
    (res.node \in {"HiDreamSampler", "HiDreamSamplerAdvanced"} /\ res.invoked)
        => \A i \in 1..2 : /\ res.result[i] % 64 = 0
                            /\ res.result[i] <= res.requested[i]
                            /\ res.requested[i] - res.result[i] < 64

\* The advanced node has invoked the pipeline for a custom width of 1000,
\* which it passed as 960.
C17_Witness ==
    /\ res.node = "HiDreamSamplerAdvanced"
    /\ res.invoked
    /\ res.aspect_ratio = Str_Custom
    /\ res.requested[1] = 1000
    /\ res.result[1] = 960

-----------------------------------------------------------------------------
\* C18: when a generate of any node starts inference with one of the five
\* offered scheduler options, the scheduler on the pipeline is an instance
\* that has not been stepped, and its class, shift and sigma flags are the
\* ones this call's option and the model config's scheduler_class and
\* shift determine; whatever scheduler an earlier call left on a cached
\* pipeline has no effect.
C18_SchedulerOfThisCall ==
    (/\ last.op = "generate"
     /\ Has(last.log, "inference")
     /\ last.scheduler_option \in scheduler_options)
        => LET config == ConfigTable[last.model_type]
               option == last.scheduler_option
           IN  /\ ~last.scheduler.stepped
               /\ last.scheduler.shift = config.shift
               /\ last.scheduler.cls
                     = (CASE option = "Default for model" -> config.scheduler_class
                          [] option = "UniPC" -> "FlowUniPCMultistepScheduler"
                          [] OTHER -> "FlashFlowMatchEulerDiscreteScheduler")
               /\ last.scheduler.karras = (option = "Karras Euler")
               /\ last.scheduler.exponential = (option = "Karras Exponential")

\* A generate asking for the model's default scheduler has hit a cached
\* pipeline that carried the stepped Karras scheduler of an earlier call,
\* and has started inference.
C18_Witness ==
    /\ last.op = "generate"
    /\ Has(last.log, "inference")
    /\ last.scheduler_option = "Default for model"
    /\ last.log[1] = "cache_hit"
    /\ last.scheduler_found.karras
    /\ last.scheduler_found.stepped
    /\ ~last.scheduler.karras

-----------------------------------------------------------------------------
-----------------------------------------------------------------------------
\* C20: when the pipeline call raises inside the generate of any node,
\* generate raises nothing and returns a blank image, and the cache still
\* holds, under the call's key, the pipeline the call used, and the entry
\* passes the validity test; a generate with the same configuration that
\* comes next is a hit on that pipeline and loads nothing from disk.
C20_InferenceFailureKeepsEntry ==
    [][/\ (last'.op = "generate" /\ Has(last'.log, "inference_error"))
            => /\ last'.raised = "None"
               /\ last'.result = "blank_h_w"
               /\ CallKey(last') \in CacheKeys(model_cache')
               /\ LET e == CacheGet(model_cache', CallKey(last'))
                  IN  /\ e.pipe.id = last'.pipe_id
                      /\ GenerateEntryValid(e.pipe, e.config)
       /\ (/\ last.op = "generate"
           /\ Has(last.log, "inference_error")
           /\ IsLookupGenerate(last')
           /\ CallKey(last') = CallKey(last))
            => /\ last'.log[1] = "cache_hit"
               /\ ~Has(last'.log, "from_pretrained")
               /\ last'.pipe_id = last.pipe_id]_vars

\* The pipeline call of the advanced node's generate has raised on a
\* pipeline the call had found in the cache; the call returned the blank
\* image and the cache still holds that pipeline.
C20_Witness ==
    /\ last.op = "generate"
    /\ last.node = "HiDreamSamplerAdvanced"
    /\ Has(last.log, "inference_error")
    /\ last.log[1] = "cache_hit"
    /\ last.result = "blank_h_w"
    /\ Len(model_cache) = 1
    /\ model_cache[1].pipe.id = last.pipe_id

\* C21: cleanup_models raises nothing, returns True and leaves the cache
\* empty even when the teardown of an entry raises: every key the cache held
\* is popped, each pop comes before the clearing of that pipeline's
\* sub-components, a failure is reported for its key only, and after it the
\* loop goes on to pop the next key or to the final memory release.
C21_CleanupSurvivesTeardownErrors ==
    [][last'.op = "cleanup_models"
         => /\ last'.raised = "None"
            /\ last'.result = "True"
            /\ model_cache' = <<>>
            /\ Count(last'.log, "pop") = Len(model_cache)
            /\ \A i \in DOMAIN last'.log :
                 /\ last'.log[i] \in {"teardown", "teardown_incomplete"}
                      => i > 1 /\ last'.log[i - 1] = "pop"
                 /\ last'.log[i] = "pop"
                      => /\ i < Len(last'.log)
                         /\ last'.log[i + 1] \in {"teardown", "teardown_incomplete"}
                 /\ last'.log[i] = "teardown_error"
                      => /\ i > 1 /\ last'.log[i - 1] = "teardown_incomplete"
                         /\ i < Len(last'.log)
                         /\ last'.log[i + 1] \in {"pop", "gc"}]_vars

\* cleanup_models has returned True on a cache of two entries: the teardown
\* of the first key raised and left its pipeline partly cleared, the second
\* key was popped and torn down after it, and the cache is empty.
C21_Witness ==
    /\ last.op = "cleanup_models"
    /\ last.result = "True"
    /\ Len(last.log) >= 5
    /\ SubSeq(last.log, 1, 5) =
         <<"pop", "teardown_incomplete", "teardown_error", "pop", "teardown">>
    /\ model_cache = <<>>
====
